---- MODULE Spec2Model ----
(***************************************************************************)
(* ALAS_Logs_Archive.py: the archive assembly pipeline.                    *)
(*                                                                         *)
(* One run of main() selects the log files of the target folder,           *)
(* compresses them on a thread pool, writes the compressed payloads as     *)
(* STORED members of a ZIP container (scroll mode: a freshly named         *)
(* container per run; incremental mode: one container reused across runs,  *)
(* name collisions going to a separate duplicates container), reports the  *)
(* sizes and deletes the source files.                                     *)
(*                                                                         *)
(* File contents are abstracted to their byte lengths and a container to   *)
(* the bag of its members.  A path of the archive folder is a tuple:       *)
(* <<"primary">> is the incremental container, <<"dup", t>> the duplicates *)
(* container stamped t, and <<"scroll", k1, .., kn>> the dated scroll name *)
(* followed by the numeric suffixes _k1 .. _kn before the extension.       *)
(***************************************************************************)
EXTENDS Integers, Sequences, FiniteSets, Bags, TLC

\* ------------------------------------------------------------------ bounds
MaxFiles == 3
MaxSize == 4
MaxRuns == 2
MaxWorkers == 2
MaxSuffix == 2

Names == 1..MaxFiles
\* byte lengths a source file is read with: empty, one byte, the largest
Sizes == {0, 1, MaxSize}

VARIABLES
    target,              \* base names of the log files present in the target folder
    archive,             \* archive folder: path -> sequence of container members
    runs,                \* number of runs of main() started so far
    pc,                  \* position of the main thread
    incremental_mode,    \* archive_mode == "incremental" for the current run
    max_workers,         \* size of the thread pool of the current run
    files,               \* the list files_to_archive of the current run
    archive_path,        \* the container path create_archive resolved
    task,                \* state of the future of each submitted file
    yielded,             \* futures as_completed has handed to the drain loop
    compressed_results,  \* results appended by the drain loop (completion order)
    completed,           \* the drain loop's counter
    progress,            \* the last progress percentage printed
    original_size,       \* the local variable original_size
    zip_mode,            \* "a" or "w"
    existing_size,       \* size of the container found at the start of the write step
    files_to_add,        \* units for the primary / fresh container
    duplicate_files,     \* units for the duplicates container
    report,              \* the sizes logged by the final report
    outcome,             \* how the process ended: "ok", "exit0", "exit1", "raised"
    log,                 \* tags of the messages logged by the current run
    archive0,            \* the archive folder when the current run started
    cleaned,             \* source files removed by the cleanup loop of the current run
    opened,              \* container paths opened for writing by the current run
    index_read,          \* the current run opened the existing container for reading
    container_error,     \* the container whose ZipFile block raised in the current run
    interrupted,         \* a KeyboardInterrupt was raised in the compression phase of the run
    write_returned,      \* the write step of the current run returned without raising
    counter,             \* the numeric suffix the scroll-mode name resolution ended with
    scrollHist,          \* numeric suffix of each scroll run that wrote a container
    args,                \* the argparse namespace of the current run
    config,              \* the dictionary load_config returned to the current run
    effective,           \* the values main() resolved from args and config
    others,              \* entries of the target folder that are never selected
    housekept,           \* entries removed by the housekeeping of the current run
    deleted_count,       \* the count the cleanup loop reports
    remove_fails,        \* source files whose os.remove raised in the cleanup loop
    today                \* log files of the target folder named with the current date

vars == <<target, archive, runs, pc, incremental_mode, max_workers, files,
          archive_path, task, yielded, compressed_results, completed, progress,
          original_size, zip_mode, existing_size, files_to_add, duplicate_files,
          report, outcome, log, archive0, cleaned, opened, write_returned,
          index_read, container_error, interrupted, counter, scrollHist,
          args, config, effective, others, housekept, deleted_count,
          remove_fails, today>>

\* what main() fixes before the pipeline starts
mainVars == <<args, config, effective, others, housekept, today>>

\* what the cleanup loop sets
cleanupVars == <<deleted_count, remove_fails>>

\* ------------------------------------------------------------- pure helpers

RECURSIVE SumOriginal(_)
SumOriginal(units) ==
    IF units = <<>> THEN 0
    ELSE Head(units).original_size + SumOriginal(Tail(units))

RECURSIVE SumData(_)
SumData(units) ==
    IF units = <<>> THEN 0
    ELSE Head(units).data + SumData(Tail(units))

RECURSIVE SumCompressSize(_)
SumCompressSize(members) ==
    IF members = EmptyBag THEN 0
    ELSE LET m == CHOOSE x \in BagToSet(members) : TRUE
         IN m.compress_size + SumCompressSize(members (-) SetToBag({m}))

\* len(compressed_data) for an input of s bytes: the stream header makes the
\* output of an empty input non-empty, longer inputs shrink.
CompressLen(s) == 1 + (s \div 2)

\* compress_file's result for a file read as s bytes
compress_file(f, s) == [arcname |-> f, data |-> CompressLen(s), original_size |-> s]

UnitNames(units) == {units[i].arcname : i \in 1..Len(units)}

MemberNames(members) == {m.name : m \in BagToSet(members)}

\* os.path.exists on a path of the archive folder
PathExists(p) == p \in DOMAIN archive

\* os.path.getsize of a container: payload bytes plus the per-member headers
\* and the end-of-directory record.
GetSize(members) == SumCompressSize(members) + BagCardinality(members) + 1

\* ---------------------------------------------------------------- naming

PrimaryPath == <<"primary">>

\* the duplicates container of the run stamped with the time of the run
\* (successive runs start in different seconds)
DupPath(timestamp) == <<"dup", timestamp>>

\* the dated scroll-mode file name, before any suffix
ScrollBase == <<"scroll">>

\* f"{name_without_ext}_{counter}.{ext}"
WithSuffix(filename, cnt) == Append(filename, cnt)

\* the suffix is applied to the name of the previous iteration
RECURSIVE ResolveLoop_Accumulate(_, _, _)
ResolveLoop_Accumulate(cnt, path, original_filename) ==
    IF ~PathExists(path) THEN [counter |-> cnt, path |-> path]
    ELSE ResolveLoop_Accumulate(cnt + 1, WithSuffix(path, cnt + 1),
                                original_filename)

\* "while os.path.exists(archive_path)"
RECURSIVE ResolveLoop(_, _, _)
ResolveLoop(cnt, path, original_filename) ==
    IF ~PathExists(path) THEN [counter |-> cnt, path |-> path]
    ELSE ResolveLoop(cnt + 1, WithSuffix(original_filename, cnt + 1),
                     original_filename)

\* name resolution without the existence loop
ResolveScrollName_NoLoop == [counter |-> 0, path |-> ScrollBase]

ResolveScrollName == ResolveLoop(0, ScrollBase, ScrollBase)

\* ------------------------------------------------------------- containers

\* zipfile.ZipFile.writestr(zinfo, data) for a STORED member: writestr sets
\* zinfo.file_size to len(data) before writing, and closing the member
\* records compress_size as the number of bytes written.
writestr(zinfo, data) ==
    [name |-> zinfo.name, file_size |-> data, compress_size |-> data]

\* the ZipInfo the write loops build for a unit
ZipInfoOf(unit) ==
    [name |-> unit.arcname, file_size |-> unit.original_size,
     compress_size |-> unit.data]

\* the members a write loop adds for the units
RECURSIVE WriteUnits(_)
WriteUnits(units) ==
    IF units = <<>> THEN EmptyBag
    ELSE SetToBag({writestr(ZipInfoOf(Head(units)), Head(units).data)})
         (+) WriteUnits(Tail(units))

\* the archive folder after ZipFile(path, zmode) received the members
ZipWrite(path, zmode, units) ==
    [p \in DOMAIN archive \cup {path} |->
        IF p = path
        THEN (IF zmode = "a" /\ PathExists(path) THEN archive[path] ELSE EmptyBag)
             (+) WriteUnits(units)
        ELSE archive[p]]

\* ----------------------------------------- command line and configuration

\* an option the command line did not carry (argparse leaves None), and one
\* it carried
NoneStr == [given |-> FALSE, v |-> ""]

NoneInt == [given |-> FALSE, v |-> 0]

Given(x) == [given |-> TRUE, v |-> x]

NoArgs ==
    [target |-> NoneStr, archive |-> NoneStr, name |-> NoneStr,
     mode |-> NoneStr, compression |-> NoneStr, level |-> NoneInt,
     workers |-> NoneInt]

\* the truth value Python gives an option: None is false, and so is the
\* zero of the option's type ("" for a string, 0 for an integer)
Truth(a, zero) == a.given /\ a.v # zero

\* "args.x if args.x else config.get(...)"
IfElse(a, zero, configured) == IF Truth(a, zero) THEN a.v ELSE configured

\* the dictionary load_config builds from a file that sets only the two
\* required options
DefaultConfig ==
    [target_folder |-> "cfg", archive_folder |-> "cfg",
     archive_name_format |-> "cfg", compression_algorithm |-> "bzip2",
     compression_level |-> 9, archive_mode |-> "scroll", max_workers |-> 1]

\* the effective values of main()
ResolveSettings(a, c) ==
    [target_folder |-> IfElse(a.target, "", c.target_folder),
     archive_folder |-> IfElse(a.archive, "", c.archive_folder),
     archive_name_format |-> IfElse(a.name, "", c.archive_name_format),
     compression_algorithm |-> IfElse(a.compression, "", c.compression_algorithm),
     compression_level |-> IfElse(a.level, 0, c.compression_level),
     archive_mode |-> IfElse(a.mode, "", c.archive_mode),
     max_workers |-> IfElse(a.workers, 0, c.max_workers)]

\* load_config stores the algorithm and the mode in lower case and argparse
\* admits lower-case choices only, so .lower() is the identity on the values
\* the validators receive
validate_compression_level(level) == 1 <= level /\ level <= 9

validate_compression_algorithm(algorithm) == algorithm \in {"lzma", "bzip2"}

validate_archive_mode(mode) == mode \in {"scroll", "incremental"}

\* the worker-count check is missing
FirstInvalid_NoWorkerCheck(e) ==
    IF ~validate_compression_algorithm(e.compression_algorithm) THEN "invalid_algorithm"
    ELSE IF ~validate_compression_level(e.compression_level) THEN "invalid_level"
    ELSE IF ~validate_archive_mode(e.archive_mode) THEN "invalid_mode"
    ELSE "none"

\* the four checks of main() in their order; each failing one logs its
\* message and calls sys.exit(1)
FirstInvalid(e) ==
    IF ~validate_compression_algorithm(e.compression_algorithm) THEN "invalid_algorithm"
    ELSE IF ~validate_compression_level(e.compression_level) THEN "invalid_level"
    ELSE IF ~validate_archive_mode(e.archive_mode) THEN "invalid_mode"
    ELSE IF e.max_workers < 1 THEN "invalid_workers"
    ELSE "none"

\* ------------------------------------------------------------ housekeeping

\* entries of the target folder besides the dated log files of earlier days:
\* a snapshot file of an earlier day, today's snapshot file, a log file of
\* today, and the folder named "error"
OtherEntries == {"gui_old", "gui_today", "log_today", "error"}

\* delete_gui_files: every snapshot file but today's is removed; stuck are
\* the entries whose removal raises (logged, the loop goes on)
delete_gui_files(entries, stuck) == entries \ ({"gui_old"} \ stuck)

\* delete_error_folder: shutil.rmtree of the folder "error"
delete_error_folder(entries, stuck) == entries \ ({"error"} \ stuck)

\* ------------------------------------------------------------------- state

NoTask == [state |-> "none", size |-> 0]

NoReport == [original |-> -1, compressed |-> -1, ratio |-> 0]

Resolved == {"ok", "failed"}

Running == {f \in files : task[f].state = "running"}

\* nothing has run yet
InitRun ==
    /\ runs = 0
    /\ pc = "idle"
    /\ incremental_mode = FALSE
    /\ max_workers = 1
    /\ files = {}
    /\ archive_path = ScrollBase
    /\ task = [f \in Names |-> NoTask]
    /\ yielded = {}
    /\ compressed_results = <<>>
    /\ completed = 0
    /\ progress = 0
    /\ original_size = 0
    /\ zip_mode = "w"
    /\ existing_size = 0
    /\ files_to_add = <<>>
    /\ duplicate_files = <<>>
    /\ report = NoReport
    /\ outcome = "none"
    /\ log = {}
    /\ archive0 = archive
    /\ cleaned = {}
    /\ opened = {}
    /\ write_returned = FALSE
    /\ index_read = FALSE
    /\ interrupted = FALSE
    /\ container_error = "none"
    /\ counter = 0
    /\ scrollHist = <<>>
    /\ args = NoArgs
    /\ config = DefaultConfig
    /\ effective = DefaultConfig
    /\ housekept = {}
    /\ deleted_count = 0
    /\ remove_fails = {}

\* empty target and archive folders
Init ==
    /\ target = {}
    /\ today = {}
    /\ archive = [p \in {} |-> EmptyBag]
    /\ others = {}
    /\ InitRun

\* ------------------------------------------------------------ main, part 1

\* the selection keeps the files named with the current date
get_files_to_archive_NoDateFilter(folder) == folder

\* get_files_to_archive: every regular file of the target folder that is
\* neither a snapshot file nor named with the current date (folder are the
\* log files; the other entries are a folder, snapshot files and a file of
\* today, none of which passes the three tests)
get_files_to_archive(folder) == {f \in folder : f \notin today}

\* the empty check is missing from create_archive
NothingToArchive_Never(fs) == FALSE

\* "if not files" at the head of create_archive
NothingToArchive(fs) == fs = {}

\* main() up to the call of create_archive_generic: the effective values and
\* their validation, housekeeping, selection, the empty check, and the name
\* resolution of create_archive.  a is the command line, c the configuration;
\* newlogs and newothers are the entries written to the target folder since
\* the previous run, stuck the entries housekeeping fails to remove.
MainRun(a, c, newlogs, newothers, stuck, target_exists) ==
    LET e == ResolveSettings(a, c)
        folder == target \cup newlogs
        entries == others \cup newothers
        kept == delete_error_folder(delete_gui_files(entries, stuck), stuck)
        selected == get_files_to_archive(folder)
    IN
    /\ pc \in {"idle", "done"}
    /\ runs < MaxRuns
    /\ target_exists \/ (folder = {} /\ entries = {})
    /\ runs' = runs + 1
    /\ args' = a
    /\ config' = c
    /\ effective' = e
    /\ target' = folder
    /\ incremental_mode' = (e.archive_mode = "incremental")
    /\ max_workers' = e.max_workers
    /\ archive0' = archive
    /\ cleaned' = {}
    /\ opened' = {}
    /\ write_returned' = FALSE
    /\ index_read' = FALSE
    /\ interrupted' = FALSE
    /\ container_error' = "none"
    /\ yielded' = {}
    /\ compressed_results' = <<>>
    /\ completed' = 0
    /\ progress' = 0
    /\ original_size' = 0
    /\ zip_mode' = "w"
    /\ existing_size' = 0
    /\ files_to_add' = <<>>
    /\ duplicate_files' = <<>>
    /\ report' = NoReport
    /\ deleted_count' = 0
    /\ remove_fails' = {}
    /\ IF FirstInvalid(e) # "none"
       THEN /\ log' = {FirstInvalid(e)}
            /\ pc' = "done"
            /\ outcome' = "exit1"
            /\ others' = entries
            /\ housekept' = {}
            /\ files' = {}
            /\ task' = [f \in Names |-> NoTask]
            /\ UNCHANGED <<archive_path, counter>>
       ELSE /\ others' = kept
            /\ housekept' = entries \ kept
            /\ files' = selected
            /\ IF NothingToArchive(selected)
               THEN /\ log' = {"nothing_to_archive"} \cup
                              (IF target_exists THEN {} ELSE {"target_missing"})
                    /\ pc' = "done"
                    /\ outcome' = "ok"
                    /\ task' = [f \in Names |-> NoTask]
                    /\ UNCHANGED <<archive_path, counter>>
               ELSE /\ log' = {}
                    /\ pc' = "pool"
                    /\ outcome' = "none"
                    /\ task' = [f \in Names |->
                                  IF f \in selected
                                  THEN [state |-> "pending", size |-> 0]
                                  ELSE NoTask]
                    /\ IF e.archive_mode = "incremental"
                       THEN archive_path' = PrimaryPath /\ counter' = 0
                       ELSE /\ archive_path' = ResolveScrollName.path
                            /\ counter' = ResolveScrollName.counter
    /\ UNCHANGED <<archive, scrollHist, today>>

\* a run started without command-line options from a configuration file that
\* sets the mode and the worker count
StartRun(incremental, workers, newlogs, target_exists) ==
    MainRun(NoArgs,
            [DefaultConfig EXCEPT
               !.archive_mode = IF incremental THEN "incremental" ELSE "scroll",
               !.max_workers = workers],
            newlogs, {}, {}, target_exists)

\* ------------------------------------------------------------ worker pool

\* a pool thread takes a pending work item
TaskStart(f) ==
    /\ pc \in {"pool", "interrupted"}
    /\ task[f].state = "pending"
    /\ Cardinality(Running) < max_workers
    /\ task' = [task EXCEPT ![f].state = "running"]
    /\ UNCHANGED <<mainVars, cleanupVars, target, archive, runs, pc, incremental_mode, max_workers, files,
                   archive_path, yielded, compressed_results, completed, progress,
                   original_size, zip_mode, existing_size, files_to_add,
                   duplicate_files, report, outcome, log, archive0, cleaned,
                   opened, write_returned,
                   index_read, container_error, interrupted, counter, scrollHist>>

\* compress_file returns for a file read as s bytes, or raises
TaskFinish(f) ==
    /\ pc \in {"pool", "interrupted"}
    /\ task[f].state = "running"
    /\ \/ \E s \in Sizes : task' = [task EXCEPT ![f] = [state |-> "ok", size |-> s]]
       \/ task' = [task EXCEPT ![f].state = "failed"]
    /\ UNCHANGED <<mainVars, cleanupVars, target, archive, runs, pc, incremental_mode, max_workers, files,
                   archive_path, yielded, compressed_results, completed, progress,
                   original_size, zip_mode, existing_size, files_to_add,
                   duplicate_files, report, outcome, log, archive0, cleaned,
                   opened, write_returned,
                   index_read, container_error, interrupted, counter, scrollHist>>

\* the counter is advanced for the futures that returned a result only
CompletedAfter_OnlySuccess(c, ok) == IF ok THEN c + 1 ELSE c

\* "completed += 1" after the try block, whatever the future's outcome
CompletedAfter(c, ok) == c + 1

\* one iteration of the as_completed loop
Collect(f) ==
    /\ pc = "pool"
    /\ f \in files \ yielded
    /\ task[f].state \in Resolved
    /\ yielded' = yielded \cup {f}
    /\ IF task[f].state = "ok"
       THEN /\ compressed_results' =
                   Append(compressed_results, compress_file(f, task[f].size))
            /\ log' = log
       ELSE /\ compressed_results' = compressed_results
            /\ log' = log \cup {"compress_failed"}
    /\ completed' = CompletedAfter(completed, task[f].state = "ok")
    /\ progress' = (completed' * 100) \div Cardinality(files)
    /\ UNCHANGED <<mainVars, cleanupVars, target, archive, runs, pc, incremental_mode, max_workers, files,
                   archive_path, task, original_size, zip_mode, existing_size,
                   files_to_add, duplicate_files, report, outcome, archive0,
                   cleaned, opened, write_returned,
                   index_read, container_error, interrupted, counter, scrollHist>>

\* KeyboardInterrupt is raised in the main thread inside the with block
Interrupt ==
    /\ pc = "pool"
    /\ pc' = "interrupted"
    /\ interrupted' = TRUE
    /\ UNCHANGED <<mainVars, cleanupVars, target, archive, runs, incremental_mode, max_workers, files,
                   archive_path, task, yielded, compressed_results, completed,
                   progress, original_size, zip_mode, existing_size, files_to_add,
                   duplicate_files, report, outcome, log, archive0, cleaned,
                   opened, write_returned,
                   index_read, container_error, counter, scrollHist>>

\* the interrupt handled like any other exception: logged and raised again
KeyboardInterruptHandler_Reraise ==
    /\ outcome' = "raised"
    /\ log' = log \cup {"program_error"}

\* main's "except KeyboardInterrupt": log and sys.exit(0)
KeyboardInterruptHandler ==
    /\ outcome' = "exit0"
    /\ log' = log \cup {"interrupted"}

\* the executor's __exit__ joins the pool; the interrupt then passes
\* create_archive's "except Exception" and reaches main's handler
InterruptExit ==
    /\ pc = "interrupted"
    /\ \A f \in files : task[f].state \in Resolved
    /\ pc' = "done"
    /\ KeyboardInterruptHandler
    /\ UNCHANGED <<mainVars, cleanupVars, target, archive, runs, incremental_mode, max_workers, files,
                   archive_path, task, yielded, compressed_results, completed,
                   progress, original_size, zip_mode, existing_size, files_to_add,
                   duplicate_files, report, archive0, cleaned,
                   opened, write_returned,
                   index_read, container_error, interrupted, counter, scrollHist>>

\* ------------------------------------------------------------- write step

\* a pool that is left as soon as one future has been handled
WorkerPoolDone_FirstCompleted == yielded # {}

\* the with block of the executor is left: as_completed is exhausted and
\* shutdown(wait=True) has joined every worker
WorkerPoolDone ==
    /\ yielded = files
    /\ \A f \in files : task[f].state \in Resolved

Last(s) == s[Len(s)]

\* the names read before the failure are kept
ReadIndex_KeepsNames(read_ok) == MemberNames(archive[archive_path])

\* the Archive Index Reader: the member names of the existing container, or
\* the empty set when opening it raised
ReadIndex(read_ok) ==
    IF read_ok THEN MemberNames(archive[archive_path]) ELSE {}

\* every unit is kept for the primary container, duplicates included
new_files_All(units, existing_files) == units

new_files(units, existing_files) ==
    LET IsNew(u) == u.arcname \notin existing_files
    IN SelectSeq(units, IsNew)

dup_files(units, existing_files) ==
    LET IsDup(u) == u.arcname \in existing_files
    IN SelectSeq(units, IsDup)

\* from the end of the with block to the partition: original_size, zip_mode,
\* the index read and the split into files_to_add and duplicate_files.  The
\* loop over compressed_results binds original_size again on each iteration.
PrepareWrite ==
    /\ pc = "pool"
    /\ WorkerPoolDone
    /\ zip_mode' = IF incremental_mode /\ PathExists(archive_path) THEN "a" ELSE "w"
    /\ IF incremental_mode /\ PathExists(archive_path)
       THEN /\ existing_size' = GetSize(archive[archive_path])
            /\ \E read_ok \in BOOLEAN :
                 /\ log' = IF read_ok THEN log ELSE log \cup {"index_read_failed"}
                 /\ files_to_add' = new_files(compressed_results, ReadIndex(read_ok))
                 /\ duplicate_files' = dup_files(compressed_results, ReadIndex(read_ok))
            /\ original_size' = IF compressed_results = <<>>
                                THEN SumOriginal(compressed_results)
                                ELSE Last(compressed_results).original_size
       ELSE /\ existing_size' = 0
            /\ files_to_add' = compressed_results
            /\ duplicate_files' = <<>>
            /\ original_size' = SumOriginal(compressed_results)
            /\ log' = log
    /\ index_read' = (incremental_mode /\ PathExists(archive_path))
    /\ pc' = "write_dup"
    /\ UNCHANGED <<mainVars, cleanupVars, target, archive, runs, incremental_mode, max_workers, files,
                   archive_path, task, yielded, compressed_results, completed,
                   progress, report, outcome, archive0, cleaned, opened,
                   write_returned, container_error, interrupted, counter, scrollHist>>

\* the exception is logged and swallowed: the run goes on to the report
RaiseToMain_Swallowed ==
    /\ pc' = "report"
    /\ outcome' = outcome
    /\ log' = log \cup {"create_archive_failed"}

\* the exception is logged by create_archive and not raised again
RaiseToMain_NotReraised ==
    /\ pc' = "done"
    /\ outcome' = "ok"
    /\ log' = log \cup {"create_archive_failed"}

\* an exception leaves create_archive_generic: create_archive logs it and
\* raises it again, main's "except Exception" logs it and raises it again
RaiseToMain ==
    /\ pc' = "done"
    /\ outcome' = "raised"
    /\ log' = log \cup {"create_archive_failed", "program_error"}

\* the archive folder after a ZipFile(path, zmode) block that wrote the first
\* j units: j = Len(units) is the block that returned, j = -1 the open that
\* raised, anything between a writestr that raised
WriteAttempt(path, zmode, units, j) ==
    IF j < 0 THEN archive ELSE ZipWrite(path, zmode, SubSeq(units, 1, j))

\* the duplicates container
WriteDuplicates ==
    /\ pc = "write_dup"
    /\ IF duplicate_files = <<>>
       THEN /\ pc' = "write_main"
            /\ UNCHANGED <<archive, opened, outcome, log, container_error>>
       ELSE \E j \in -1..Len(duplicate_files) :
              /\ archive' = WriteAttempt(DupPath(runs), "w", duplicate_files, j)
              /\ opened' = IF j < 0 THEN opened ELSE opened \cup {DupPath(runs)}
              /\ IF j = Len(duplicate_files)
                 THEN /\ pc' = "write_main"
                      /\ log' = log \cup {"duplicates_saved"}
                      /\ UNCHANGED <<outcome, container_error>>
                 ELSE /\ container_error' = "duplicates"
                      /\ RaiseToMain
    /\ UNCHANGED <<mainVars, cleanupVars, target, runs, incremental_mode, max_workers, files,
                   archive_path, task, yielded, compressed_results, completed,
                   progress, original_size, zip_mode, existing_size, files_to_add,
                   duplicate_files, report, archive0, cleaned, write_returned,
                   index_read, interrupted, counter, scrollHist>>

\* the guard of the primary write block is missing
HasFilesToAdd_Always == TRUE

\* "if files_to_add"
HasFilesToAdd == files_to_add # <<>>

\* the primary (incremental) or fresh (scroll) container; the write loop
\* binds original_size on each iteration
WritePrimary ==
    /\ pc = "write_main"
    /\ IF ~HasFilesToAdd
       THEN /\ pc' = "report"
            /\ write_returned' = TRUE
            /\ UNCHANGED <<archive, opened, outcome, log, original_size, scrollHist,
                           container_error>>
       ELSE \E j \in -1..Len(files_to_add) :
              /\ archive' = WriteAttempt(archive_path, zip_mode, files_to_add, j)
              /\ opened' = IF j < 0 THEN opened ELSE opened \cup {archive_path}
              /\ scrollHist' = IF j < 0 \/ incremental_mode THEN scrollHist
                               ELSE Append(scrollHist, counter)
              /\ IF j = Len(files_to_add)
                 THEN /\ pc' = "report"
                      /\ write_returned' = TRUE
                      /\ original_size' = IF files_to_add = <<>> THEN original_size
                                           ELSE Last(files_to_add).original_size
                      /\ UNCHANGED <<outcome, log, container_error>>
                 ELSE /\ container_error' = "primary"
                      /\ RaiseToMain
                      /\ UNCHANGED <<write_returned, original_size>>
    /\ UNCHANGED <<mainVars, cleanupVars, target, runs, incremental_mode, max_workers, files,
                   archive_path, task, yielded, compressed_results, completed,
                   progress, zip_mode, existing_size, files_to_add,
                   duplicate_files, report, archive0, cleaned, index_read,
                   interrupted, counter>>

\* ------------------------------------------------------ report and cleanup

\* (1 - compressed / original) * 100, in whole percent rounded down; a zero
\* divisor raises ZeroDivisionError
Ratio(compressed, original) ==
    IF original = 0 THEN [zero_division |-> TRUE, value |-> 0]
    ELSE [zero_division |-> FALSE,
          value |-> ((original - compressed) * 100) \div original]

\* the ratio computed without the guard on the divisor
compression_ratio_Unguarded(compressed, original) == Ratio(compressed, original)

\* "(1 - compressed / original) * 100 if original > 0 else 0"
compression_ratio(compressed, original) ==
    IF original > 0 THEN Ratio(compressed, original)
    ELSE [zero_division |-> FALSE, value |-> 0]

\* the incremental report sums over the whole batch
ReportedUnits_WholeBatch == compressed_results

\* the units the incremental report sums over
ReportedUnits == files_to_add

\* os.path.getsize(archive_path) and the final report
Report ==
    /\ pc = "report"
    /\ IF ~PathExists(archive_path)
       THEN /\ RaiseToMain
            /\ UNCHANGED report
       ELSE LET final_size == GetSize(archive[archive_path])
                added_original_size == SumOriginal(ReportedUnits)
                added_compressed_size == SumData(ReportedUnits)
                sizes == IF incremental_mode
                         THEN [original |-> added_original_size,
                               compressed |-> added_compressed_size]
                         ELSE [original |-> original_size,
                               compressed |-> final_size]
                ratio == compression_ratio(sizes.compressed, sizes.original)
            IN
            IF ratio.zero_division
            THEN /\ pc' = "done"
                 /\ outcome' = "raised"
                 /\ log' = log \cup {"create_archive_failed", "program_error",
                                     "ZeroDivisionError"}
                 /\ UNCHANGED report
            ELSE /\ report' = [original |-> sizes.original,
                               compressed |-> sizes.compressed,
                               ratio |-> ratio.value]
                 /\ pc' = "cleanup"
                 /\ UNCHANGED <<outcome, log>>
    /\ UNCHANGED <<mainVars, cleanupVars, target, archive, runs, incremental_mode,
                   max_workers, files,
                   archive_path, task, yielded, compressed_results, completed,
                   progress, original_size, zip_mode, existing_size, files_to_add,
                   duplicate_files, archive0, cleaned, opened, write_returned,
                   index_read, container_error, interrupted, counter, scrollHist>>

\* the cleanup loop runs over the files that produced a compressed unit
CleanupList_Archived == UnitNames(compressed_results)

\* "for file_path in files"
CleanupList == files

\* the loop ends at the first os.remove that raises
Removed_StopAtFailure(paths, failing) == IF failing = {} THEN paths ELSE {}

\* the paths a loop over paths removes when os.remove raises for failing:
\* each removal has its own try block
Removed(paths, failing) == paths \ failing

\* the cleanup loop: skip a path that no longer exists, remove it and count
\* it, or log the failure
Cleanup ==
    /\ pc = "cleanup"
    /\ LET existing == CleanupList \cap target IN
       \E failing \in SUBSET existing :
         /\ cleaned' = Removed(existing, failing)
         /\ target' = target \ cleaned'
         /\ remove_fails' = failing
         /\ deleted_count' = Cardinality(cleaned')
         /\ log' = IF failing = {} THEN log ELSE log \cup {"delete_failed"}
    /\ pc' = "done"
    /\ outcome' = "ok"
    /\ UNCHANGED <<mainVars, archive, runs, incremental_mode, max_workers, files,
                   archive_path, task, yielded, compressed_results, completed,
                   progress, original_size, zip_mode, existing_size, files_to_add,
                   duplicate_files, report, archive0, opened, write_returned,
                   index_read, container_error, interrupted, counter, scrollHist>>

\* ------------------------------------------------------------ specification

Next ==
    \/ \E incremental \in BOOLEAN, workers \in 1..MaxWorkers,
          newlogs \in SUBSET Names, target_exists \in BOOLEAN :
         StartRun(incremental, workers, newlogs, target_exists)
    \/ \E f \in Names : TaskStart(f)
    \/ \E f \in Names : TaskFinish(f)
    \/ \E f \in Names : Collect(f)
    \/ Interrupt
    \/ InterruptExit
    \/ PrepareWrite
    \/ WriteDuplicates
    \/ WritePrimary
    \/ Report
    \/ Cleanup

Spec == Init /\ [][Next]_vars

\* ---------------------------------- main() from any command line and folder

\* the names the scroll-mode resolution can meet in the archive folder
ScrollPaths == {ScrollBase} \cup {WithSuffix(ScrollBase, k) : k \in 1..MaxSuffix}

\* archive folders holding any of these names
ArchiveFolders == {[p \in S |-> EmptyBag] : S \in SUBSET ScrollPaths}

\* command lines argparse accepts: --mode, --compression and --level are
\* restricted by choices, --workers takes any integer, the strings any text
ArgsSet ==
    [target : {NoneStr, Given("cli")},
     archive : {NoneStr, Given("cli")},
     name : {NoneStr, Given(""), Given("cli")},
     mode : {NoneStr, Given("scroll"), Given("incremental")},
     compression : {NoneStr, Given("lzma"), Given("bzip2")},
     level : {NoneInt, Given(1), Given(9)},
     workers : {NoneInt} \cup {Given(w) : w \in -1..MaxWorkers}]

\* configuration files: the default one, and files that set one option to a
\* valid or an invalid value
ConfigSet ==
    {DefaultConfig,
     [DefaultConfig EXCEPT !.archive_mode = "incremental"],
     [DefaultConfig EXCEPT !.archive_mode = "overwrite"],
     [DefaultConfig EXCEPT !.compression_algorithm = "gzip"],
     [DefaultConfig EXCEPT !.compression_level = 0],
     [DefaultConfig EXCEPT !.compression_level = 10],
     [DefaultConfig EXCEPT !.max_workers = 0],
     [DefaultConfig EXCEPT !.max_workers = MaxWorkers]}

InitMain ==
    /\ target \in {{}, Names}
    /\ today = {}
    /\ others \in {{}, OtherEntries}
    /\ archive \in ArchiveFolders
    /\ InitRun

\* the first run of main()
NextMain ==
    /\ runs = 0
    /\ \E a \in ArgsSet, c \in ConfigSet, stuck \in {{}, {"gui_old", "error"}},
          target_exists \in BOOLEAN :
         MainRun(a, c, {}, {}, stuck, target_exists)

SpecMain == InitMain /\ [][NextMain]_vars

\* ------------------------------- one run on a folder holding today's files

\* the archive folder an earlier incremental run left: the primary
\* container with one member
EarlierArchive ==
    (PrimaryPath :> WriteUnits(<<compress_file(1, 1)>>))

\* a target folder with log files of earlier days and of today, with or
\* without the snapshot files and the error folder; an archive folder that
\* is empty or left by an earlier run
InitDay ==
    /\ target \in SUBSET Names
    /\ today \in SUBSET target
    /\ others \in {{}, OtherEntries}
    /\ archive \in {[p \in {} |-> EmptyBag], EarlierArchive}
    /\ InitRun

NextDay ==
    \/ /\ runs = 0
       /\ \E incremental \in BOOLEAN, workers \in 1..MaxWorkers :
            StartRun(incremental, workers, {}, TRUE)
    \/ \E f \in Names : TaskStart(f)
    \/ \E f \in Names : TaskFinish(f)
    \/ \E f \in Names : Collect(f)
    \/ Interrupt
    \/ InterruptExit
    \/ PrepareWrite
    \/ WriteDuplicates
    \/ WritePrimary
    \/ Report
    \/ Cleanup

SpecDay == InitDay /\ [][NextDay]_vars

TypeOK ==
    /\ target \subseteq Names
    /\ pc \in {"idle", "pool", "interrupted", "write_dup", "write_main",
               "report", "cleanup", "done"}
    /\ outcome \in {"none", "ok", "exit0", "exit1", "raised"}
    /\ files \subseteq Names
    /\ yielded \subseteq files

\* ------------------------------------------------------------------ claims

RunEnded == pc = "done"

AllResolved == \A f \in files : task[f].state \in Resolved

\* no two members of the container carry the same name
UniqueNames(members) ==
    \A m \in BagToSet(members) :
        /\ CopiesIn(m, members) = 1
        /\ \A n \in BagToSet(members) : n.name = m.name => n = m

StrictlyIncreasing(s) == \A i \in 1..Len(s) - 1 : s[i] < s[i + 1]

\* C1: whenever the cleanup loop of a run has removed a source file, the
\* write step of that run has returned without raising.
C1_DeleteOnlyAfterWrite ==
    cleaned # {} => write_returned /\ container_error = "none"

C1_Witness ==
    /\ cleaned # {}
    /\ write_returned
    /\ archive_path \in opened
    /\ incremental_mode

\* C2: when a ZipFile block (duplicates or primary container) raises, the
\* write step does not return, the primary container is not opened after a
\* failed duplicates container, no source file of the run is deleted, and
\* the exception is logged by create_archive and by main and ends the
\* process as an uncaught exception.
C2_ContainerErrorPropagates ==
    container_error # "none" =>
        /\ pc = "done"
        /\ outcome = "raised"
        /\ {"create_archive_failed", "program_error"} \subseteq log
        /\ ~write_returned
        /\ cleaned = {}
        /\ files \subseteq target
        /\ report = NoReport
        /\ (container_error = "duplicates" => archive_path \notin opened)

C2_Witness ==
    /\ container_error = "duplicates"
    /\ DupPath(runs) \in opened
    /\ outcome = "raised"
    /\ files # {}

\* C3: the primary container of incremental mode never holds two members
\* with the same name (a unit whose name is already a member goes to the
\* duplicates container).
C3_PrimaryNamesUnique ==
    PathExists(PrimaryPath) => UniqueNames(archive[PrimaryPath])

\* C4: after a successful incremental run on an existing primary container
\* with member names E and compressed units named U, the primary container
\* is the old one plus exactly the units named in U \ E, and the duplicates
\* container exists if and only if U \cap E is non-empty and then holds
\* exactly the units named in U \cap E.
C4_IncrementalPartition ==
    (RunEnded /\ outcome = "ok" /\ incremental_mode /\ files # {}
       /\ PrimaryPath \in DOMAIN archive0) =>
        LET E == MemberNames(archive0[PrimaryPath])
            U == UnitNames(compressed_results)
        IN /\ MemberNames(archive[PrimaryPath]) = E \cup (U \ E)
           /\ archive[PrimaryPath] =
                 archive0[PrimaryPath] (+) WriteUnits(new_files(compressed_results, E))
           /\ (DupPath(runs) \in DOMAIN archive) <=> (U \cap E # {})
           /\ (U \cap E # {}) =>
                 archive[DupPath(runs)] = WriteUnits(dup_files(compressed_results, E))

\* C5: after a successful write of a non-empty batch to a fresh container,
\* the container holds exactly one member per compressed unit, whose
\* declared uncompressed size is the original byte length and whose
\* declared compressed size is the payload length.
C5_MemberSizesDeclared ==
    (write_returned /\ zip_mode = "w" /\ files_to_add # <<>>) =>
        /\ BagCardinality(archive[archive_path]) = Len(files_to_add)
        /\ \A i \in 1..Len(files_to_add) :
              CopiesIn(ZipInfoOf(files_to_add[i]), archive[archive_path]) = 1

\* C6: a scroll-mode run resolves a path that did not exist when the run
\* started, formed from the dated name and at most one numeric suffix; it
\* opens no container that existed before and leaves each of them as it
\* was; and the suffixes of successive runs that write strictly increase.
C6_ScrollNeverOverwrites ==
    /\ StrictlyIncreasing(scrollHist)
    /\ (~incremental_mode /\ files # {}) =>
          /\ archive_path \notin DOMAIN archive0
          /\ archive_path = IF counter = 0 THEN ScrollBase
                            ELSE WithSuffix(ScrollBase, counter)
          /\ opened \cap DOMAIN archive0 = {}
          /\ \A p \in DOMAIN archive0 : PathExists(p) /\ archive[p] = archive0[p]

C6_Witness ==
    /\ ~incremental_mode
    /\ Len(scrollHist) >= 2
    /\ counter >= 1
    /\ archive_path \in opened
    /\ ScrollBase \in DOMAIN archive0

\* C7: in a run in which some compression task failed, the failed files are
\* not among the compressed units, every other task is still handled, and,
\* unless a container write raised or the run was interrupted, the run goes
\* through the write and report steps without raising.
C7_CompressionFailureIsolated ==
    ("compress_failed" \in log /\ container_error = "none" /\ ~interrupted) =>
        /\ \A f \in yielded :
              f \in UnitNames(compressed_results) <=> task[f].state = "ok"
        /\ outcome # "raised"
        /\ (RunEnded => yielded = files /\ report # NoReport)

\* C8: a container is opened (for reading or writing), and the write,
\* report and cleanup steps are entered, only after every submitted task has
\* resolved and been handled by the drain loop; the cleanup loop runs only
\* after the write step has returned.
C8_PipelineOrdering ==
    /\ (index_read \/ opened # {} \/ archive # archive0
          \/ pc \in {"write_dup", "write_main", "report", "cleanup"})
          => (AllResolved /\ yielded = files)
    /\ (pc = "cleanup" \/ cleaned # {}) => write_returned

C8_Witness ==
    /\ pc = "write_main"
    /\ index_read
    /\ opened # {}
    /\ max_workers > 1
    /\ Cardinality(files) > 1
    /\ "compress_failed" \in log

\* C9: once a KeyboardInterrupt has been raised during the compression
\* phase, no container is read, created or changed, the write step does not
\* run, every source file of the run stays in the target folder, and the
\* process ends with exit code 0.
C9_InterruptSafe ==
    interrupted =>
        /\ archive = archive0
        /\ opened = {}
        /\ ~index_read
        /\ ~write_returned
        /\ cleaned = {}
        /\ files \subseteq target
        /\ (RunEnded => outcome = "exit0")

C9_Witness ==
    /\ RunEnded
    /\ interrupted
    /\ outcome = "exit0"
    /\ compressed_results # <<>>
    /\ yielded # files
    /\ DOMAIN archive0 # {}

\* C10: the original size a scroll-mode run reports is the sum of the
\* original sizes of all compressed units of the batch.
C10_ScrollReportsBatchTotal ==
    (~incremental_mode /\ report # NoReport) =>
        report.original = SumOriginal(compressed_results)

\* the members the current run added to the container at path p
AddedMembers(p) ==
    IF p \in DOMAIN archive0 THEN archive[p] (-) archive0[p] ELSE archive[p]

\* the compressed units of the batch whose name the run added to path p
UnitsAddedTo(p) ==
    SelectSeq(compressed_results,
              LAMBDA u : u.arcname \in MemberNames(AddedMembers(p)))

\* C11: in incremental mode the reported original size, compressed size and
\* ratio are the sums over exactly the units the run appended to the primary
\* container, and the ratio derived from these two sums; units that went to
\* the duplicates container are not counted.
C11_IncrementalReportsAdded ==
    (incremental_mode /\ report # NoReport) =>
        LET orig == SumOriginal(UnitsAddedTo(PrimaryPath))
            comp == SumCompressSize(AddedMembers(PrimaryPath))
        IN /\ report.original = orig
           /\ report.compressed = comp
           /\ report.ratio = IF orig = 0 THEN 0
                             ELSE ((orig - comp) * 100) \div orig

C11_Witness ==
    /\ incremental_mode
    /\ report # NoReport
    /\ duplicate_files # <<>>
    /\ files_to_add # <<>>
    /\ DupPath(runs) \in DOMAIN archive
    /\ report.original > 0
    /\ report.original < SumOriginal(compressed_results)

\* C12: no run ends in a division by zero, and a report whose original size
\* (the divisor of the ratio) is 0 carries the ratio 0, in both modes.
C12_RatioNeverDividesByZero ==
    /\ "ZeroDivisionError" \notin log
    /\ (report # NoReport /\ report.original = 0) => report.ratio = 0

C12_Witness ==
    /\ report # NoReport
    /\ report.original = 0
    /\ report.ratio = 0
    /\ ~incremental_mode
    /\ outcome = "ok"

\* C13: a run whose selection is empty, the target folder missing or
\* not, ends at once with exit status "ok" after logging that nothing is to
\* be archived: no container is opened, created or changed and no source
\* file is deleted.
C13_EmptySelectionNoEffect ==
    (runs > 0 /\ files = {} /\ outcome # "exit1") =>
        /\ pc = "done"
        /\ outcome = "ok"
        /\ "nothing_to_archive" \in log
        /\ archive = archive0
        /\ opened = {}
        /\ ~index_read
        /\ cleaned = {}
        /\ deleted_count = 0

C13_Witness ==
    /\ RunEnded
    /\ runs = 2
    /\ files = {}
    /\ "target_missing" \in log
    /\ outcome = "ok"
    /\ DOMAIN archive # {}

\* C14: in an incremental run that found the primary container, when no unit
\* is new the primary container is not opened for writing and its members
\* stay those it had when the run started.
C14_EmptyNewLeavesPrimary ==
    (index_read /\ files_to_add = <<>>) =>
        /\ PrimaryPath \notin opened
        /\ archive[PrimaryPath] = archive0[PrimaryPath]

C14_Witness ==
    /\ index_read
    /\ files_to_add = <<>>
    /\ duplicate_files # <<>>
    /\ DupPath(runs) \in opened
    /\ RunEnded
    /\ outcome = "ok"

\* C15: when reading the index of the existing primary container fails, the
\* failure is logged and not raised, every compressed unit of the batch is
\* treated as new, and no duplicates container is written.
C15_IndexReadFailsSoft ==
    "index_read_failed" \in log =>
        /\ files_to_add = compressed_results
        /\ duplicate_files = <<>>
        /\ DupPath(runs) \notin DOMAIN archive
        /\ "duplicates_saved" \notin log
        /\ (outcome = "raised" => container_error = "primary")

C15_Witness ==
    /\ "index_read_failed" \in log
    /\ RunEnded
    /\ outcome = "ok"
    /\ UnitNames(compressed_results) \cap MemberNames(archive0[PrimaryPath]) # {}
    /\ archive[PrimaryPath] # archive0[PrimaryPath]

\* the run went through the cleanup loop (the only way a run with a
\* non-empty selection ends with status "ok")
CleanupDone == files # {} /\ outcome = "ok"

\* C16: after the cleanup loop every file of the input list is gone from
\* the target folder except those whose removal raised; a removal that
\* raised is logged and the other files are removed all the same; the
\* reported count is the number of files the loop removed.
C16_CleanupDeletesEachFile ==
    CleanupDone =>
        /\ files \cap target = remove_fails
        /\ cleaned = files \ remove_fails
        /\ deleted_count = Cardinality(files \ target)
        /\ (remove_fails # {} => "delete_failed" \in log)

C16_Witness ==
    /\ CleanupDone
    /\ remove_fails # {}
    /\ cleaned # {}
    /\ deleted_count = 2
    /\ Cardinality(files) = 3
    /\ "delete_failed" \in log

\* C17: when a run goes through the cleanup loop, a file whose compression
\* failed is removed from the target folder like the archived ones (unless
\* its removal raises).
C17_FailedFilesAreDeleted ==
    CleanupDone =>
        \A f \in files :
            (task[f].state = "failed" /\ f \notin remove_fails) =>
                f \in cleaned /\ f \notin target

C17_Witness ==
    /\ CleanupDone
    /\ \E f \in files :
         /\ task[f].state = "failed"
         /\ f \in cleaned
         /\ f \notin target
         /\ \A p \in DOMAIN archive : f \notin MemberNames(archive[p])
    /\ compressed_results # <<>>

\* C18: every option present on the command line is the effective value of
\* the run, whatever the configuration file says; for --workers this holds
\* for every integer given.
C18_FlagDeterminesEffective ==
    runs > 0 =>
        /\ args.target.given => effective.target_folder = args.target.v
        /\ args.archive.given => effective.archive_folder = args.archive.v
        /\ args.name.given => effective.archive_name_format = args.name.v
        /\ args.mode.given => effective.archive_mode = args.mode.v
        /\ args.compression.given =>
               effective.compression_algorithm = args.compression.v
        /\ args.level.given => effective.compression_level = args.level.v
        /\ args.workers.given => effective.max_workers = args.workers.v

\* the settings the validation of main() rejects
InvalidSettings(e) ==
    \/ e.compression_algorithm \notin {"lzma", "bzip2"}
    \/ e.compression_level \notin 1..9
    \/ e.archive_mode \notin {"scroll", "incremental"}
    \/ e.max_workers < 1

\* C19: a run whose effective settings are invalid ends with exit code 1
\* and has removed no entry of the target folder (neither by housekeeping
\* nor by cleanup), selected nothing, and opened, created or changed no
\* container.
C19_InvalidSettingsExitFirst ==
    (runs > 0 /\ InvalidSettings(effective)) =>
        /\ pc = "done"
        /\ outcome = "exit1"
        /\ housekept = {}
        /\ cleaned = {}
        /\ files = {}
        /\ opened = {}
        /\ archive = archive0

C19_Witness ==
    /\ outcome = "exit1"
    /\ args.workers.given
    /\ effective.max_workers < 1
    /\ others = OtherEntries
    /\ target # {}
    /\ DOMAIN archive # {}

\* C20: the scroll-mode name is the dated base name when that path is free,
\* and otherwise the base name with the suffix k, for the smallest k >= 1
\* whose path is free; the name never carries more than one suffix, and the
\* loop ends after at most as many steps as there are existing paths.
C20_ScrollNameResolution ==
    (pc = "pool" /\ ~incremental_mode) =>
        /\ ~PathExists(archive_path)
        /\ ~PathExists(ScrollBase) => (archive_path = ScrollBase /\ counter = 0)
        /\ PathExists(ScrollBase) =>
               /\ counter >= 1
               /\ archive_path = WithSuffix(ScrollBase, counter)
               /\ \A k \in 1..(counter - 1) : PathExists(WithSuffix(ScrollBase, k))
        /\ Len(archive_path) <= 2
        /\ counter <= Cardinality(DOMAIN archive)

C20_Witness ==
    /\ pc = "pool"
    /\ ~incremental_mode
    /\ PathExists(ScrollBase)
    /\ PathExists(WithSuffix(ScrollBase, 2))
    /\ archive_path = WithSuffix(ScrollBase, 1)
    /\ counter = 1

\* the as_completed loop of the run ran to its end
DrainEnded ==
    /\ files # {}
    /\ ~interrupted
    /\ pc \in {"write_dup", "write_main", "report", "cleanup", "done"}

FailedFiles == {f \in files : task[f].state = "failed"}

\* C21: under every completion order, once the drain loop has ended every
\* submitted file has been handled exactly once: completed is the number of
\* files, units plus failed files make up the input list, no file has two
\* units, progress stands at 100, and the units are those of the files
\* whose task succeeded, whatever the order they completed in; and within a
\* run progress never decreases.
C21_TaskAccounting ==
    /\ [](DrainEnded =>
            /\ yielded = files
            /\ completed = Cardinality(files)
            /\ Len(compressed_results) + Cardinality(FailedFiles)
                   = Cardinality(files)
            /\ Cardinality(UnitNames(compressed_results)) = Len(compressed_results)
            /\ progress = 100
            /\ {compressed_results[i] : i \in 1..Len(compressed_results)}
                   = {compress_file(f, task[f].size) : f \in files \ FailedFiles})
    /\ [][runs' = runs => progress' >= progress]_vars

C21_Witness ==
    /\ DrainEnded
    /\ FailedFiles # {}
    /\ Len(compressed_results) = 2
    /\ compressed_results[1].arcname > compressed_results[2].arcname
    /\ max_workers = 2

\* the member record the write loops store for a unit
MemberOf(u) == writestr(ZipInfoOf(u), u.data)

\* the containers the current run may write a unit to
RunContainers ==
    IF incremental_mode THEN {PrimaryPath, DupPath(runs)} ELSE {archive_path}

\* C22: once the write step of a run has returned, every compressed unit
\* of the batch has been added to exactly one container of the archive
\* folder, once: the fresh container in scroll mode, the primary or the
\* duplicates container in incremental mode.
C22_UnitsConserved ==
    write_returned =>
        \A i \in 1..Len(compressed_results) :
            LET m == MemberOf(compressed_results[i]) IN
            \E p \in RunContainers \cap DOMAIN archive :
                /\ CopiesIn(m, AddedMembers(p)) = 1
                /\ \A q \in DOMAIN archive \ {p} :
                       CopiesIn(m, AddedMembers(q)) = 0

C22_Witness ==
    /\ write_returned
    /\ incremental_mode
    /\ files_to_add # <<>>
    /\ duplicate_files # <<>>
    /\ PrimaryPath \in opened
    /\ DupPath(runs) \in opened
    /\ outcome = "ok"

\* C23: a run in which every compression task failed removes no source
\* file, in either mode, whether or not the container exists already.
C23_NoDeletionWithoutUnits ==
    (files # {} /\ FailedFiles = files) => (cleaned = {} /\ files \subseteq target)

\* C24: from the start of a run to its end no file named with the run's
\* current date is selected, compressed or removed: today's log files stay
\* in the target folder and out of the input list, and housekeeping removes
\* neither today's snapshot file nor today's log file.
C24_TodayUntouched ==
    /\ today \subseteq target
    /\ today \cap files = {}
    /\ today \cap cleaned = {}
    /\ \A f \in today : task[f] = NoTask
    /\ housekept \cap {"gui_today", "log_today"} = {}
    /\ UnitNames(compressed_results) \cap today = {}

C24_Witness ==
    /\ RunEnded
    /\ outcome = "ok"
    /\ today # {}
    /\ cleaned # {}
    /\ "gui_old" \in housekept
    /\ "gui_today" \in others
    /\ "log_today" \in others

====
